---- MODULE Spec2Model ----
(***************************************************************************)
(* Techno-economic analysis engine of biosteam (biosteam/_tea.py): the     *)
(* depreciation registry, the TEA object with its validated setters, the   *)
(* cash flow table, the break-even solvers of TEA and CombinedTEA.         *)
(*                                                                         *)
(* Numbers.  The code works in floating point; the model works in exact    *)
(* integers over fixed denominators:                                       *)
(*   money          integer multiples of 1/MoneyDen dollar                 *)
(*   depreciation   fractions in units of 1/FracDen (the tables have at    *)
(*                  most five decimals)                                    *)
(*   income tax, startup fractions, WC_over_FCI, construction schedule,    *)
(*   finance fraction and interest: halves (numerator over HalfDen)        *)
(*   _startup_time  months over MonthsPerYear                              *)
(*   rates (IRR)    units of 1e-6 (numerator over Micro)                   *)
(* Every product below is exact for the inputs the model draws.            *)
(***************************************************************************)
EXTENDS Integers, Sequences, FiniteSets, TLC

\* ------------------------------------------------------------------ units
\* denominators of the model's exact arithmetic
FracDen == 100000
HalfDen == FracDen \div 50000
MoneyDen == HalfDen * FracDen
\* startup_months setter: months/12.
MonthsPerYear == 12
\* operating_days setter: days*24
HoursPerDay == 24
\* 1e-6, the perturbation of the warm-start guess and the solvers' xtol
Micro == 1000000
\* the fixed seeds of the fallback rate solve, 0.15 and 0.15001
SecantRateSeed0 == 150000
SecantRateSeed1 == 150010

\* ----------------------------------------------------------------- bounds
\* longest operating life drawn at construction
MaxYears == 7
\* operations a caller performs on the objects in one session
MaxCalls == 2

RECURSIVE SumSeq(_)
SumSeq(s) == IF s = <<>> THEN 0 ELSE Head(s) + SumSeq(Tail(s))

RECURSIVE Pow(_, _)
Pow(b, e) == IF e = 0 THEN 1 ELSE b * Pow(b, e - 1)

Abs(x) == IF x < 0 THEN -x ELSE x

\* ------------------------------------------------- depreciation registry
\* _MACRS, fractions in units of 1/FracDen
MACRS ==
  [ MACRS5  |-> <<20000, 32000, 19200, 11520, 11520, 5760>>,
    MACRS7  |-> <<14290, 24490, 17490, 12490, 8930, 8920, 8930, 4460>>,
    MACRS10 |-> <<10000, 18000, 14400, 11520, 9220, 7370, 6550, 6550,
                  6560, 6550, 3280>>,
    MACRS15 |-> <<5000, 9500, 8550, 7700, 6930, 6230, 5900, 5900, 5910,
                  5900, 5910, 5900, 5910, 5900, 5910, 2950>>,
    MACRS20 |-> <<3750, 7219, 6677, 6177, 5713, 5285, 4888, 4522, 44620,
                  4461, 4462, 4461, 4462, 4461, 4462, 4461, 4462, 4461,
                  4462, 4461, 2231>> ]

\* the schedule names the message of the depreciation setter lists
DepreciationMessageNames == {"MACRS5", "MACRS7", "MACRS10", "MACRS15"}

\* names a caller may pass to the depreciation setter ("SL" is not registered)
DepreciationInputs == DOMAIN MACRS \cup {"SL"}

\* ---------------------------------------------------------------- results
\* Outcome of an operation: exc = "" when it returned, else the exception
\* class raised, with msg naming which raise statement it was.
NoExc == [exc |-> "", msg |-> ""]
Raised(e, m) == [exc |-> e, msg |-> m]

\* ---------------------------------------------------------------- classes
\* A class of the TEA hierarchy: the hooks it defines and the cost-accounting
\* policy they implement (_TDC(DPI) = DPI, _FCI(TDC) = FCIfactor*TDC,
\* _FOC(FCI) = FOCfactor*FCI/HalfDen).
Hooks == {"_TDC", "_FCI", "_FOC"}

BaseTEA == [name |-> "TEA", hooks |-> {}, isabstract |-> FALSE,
            FCIfactor |-> 0, FOCfactor |-> 0]
AbstractSub == [name |-> "AbstractSub", hooks |-> {}, isabstract |-> TRUE,
                FCIfactor |-> 0, FOCfactor |-> 0]
ConcreteSub == [name |-> "ConcreteSub", hooks |-> Hooks, isabstract |-> FALSE,
                FCIfactor |-> 2, FOCfactor |-> 1]

\* TEA.__init_subclass__: the error raised when a subclass is defined
init_subclass(isabstract, hooks) ==
  IF isabstract THEN NoExc
  ELSE IF Hooks \subseteq hooks THEN NoExc
  ELSE Raised("NotImplementedError", "subclass must implement")

\* ------------------------------------------------------------- TEA object
\* TEA.operating_days setter.  days is given in units of 1/HoursPerDay day.
operating_days_set(t, days) ==
  [t EXCEPT !._operating_days = days,
            !._annual_factor = (days * HoursPerDay) \div HoursPerDay]

\* TEA.duration setter
duration_set(t, duration) ==
  [t EXCEPT !._duration = duration,
            !._years = duration[2] - duration[1]]

\* TEA.depreciation setter: [out, t]
depreciation_set(t, depreciation) ==
  IF depreciation \in DOMAIN MACRS
    THEN [out |-> NoExc,
          t |-> [t EXCEPT !._depreciation_array = MACRS[depreciation],
                          !._depreciation = depreciation]]
    ELSE [out |-> Raised("ValueError", "depreciation must be either"),
          t |-> t]

\* TEA.construction_schedule setter
construction_schedule_set(t, schedule) ==
  [t EXCEPT !._construction_schedule = schedule,
            !._start = Len(schedule)]

\* TEA.startup_months setter: [out, t]; _startup_time is months over
\* MonthsPerYear, stored as its numerator
StartupMonthsSetMutant(t, months) ==
  IF months < MonthsPerYear
    THEN [out |-> NoExc, t |-> [t EXCEPT !._startup_time = months]]
    ELSE [out |-> Raised("AssertionError", "startup time must be less than a year"),
          t |-> t]

startup_months_set(t, months) ==
  IF months <= MonthsPerYear
    THEN [out |-> NoExc, t |-> [t EXCEPT !._startup_time = months]]
    ELSE [out |-> Raised("AssertionError", "startup time must be less than a year"),
          t |-> t]

\* the object before __init__ has assigned anything
Blank ==
  [cls |-> BaseTEA, system |-> [units |-> <<>>, feeds |-> <<>>, products |-> <<>>], IRR |-> 0, _IRR |-> 0,
   _sales |-> 0, _duration |-> <<0, 0>>, _years |-> 0, _depreciation |-> "",
   _depreciation_array |-> <<>>, income_tax |-> 0, _operating_days |-> 0,
   _annual_factor |-> 0, lang_factor |-> 0, _construction_schedule |-> <<>>,
   _start |-> 0, _startup_time |-> 0, startup_FOCfrac |-> 0,
   startup_VOCfrac |-> 0, startup_salesfrac |-> 0, WC_over_FCI |-> 0,
   finance_interest |-> 0, finance_years |-> 0, finance_fraction |-> 0,
   _duration_array |-> <<0, 0>>]

\* TEA.__init__: [out, t].  The assignments run in the order of the code; the
\* first setter that raises ends the construction.
TEAInit(cls, system, p) ==
  LET t0 == [Blank EXCEPT !.cls = cls, !.IRR = p.IRR]
      t1 == duration_set(t0, p.duration)
      d  == depreciation_set(t1, p.depreciation)
      t2 == [d.t EXCEPT !.income_tax = p.income_tax]
      t3 == operating_days_set(t2, p.operating_days)
      t4 == [t3 EXCEPT !.lang_factor = p.lang_factor]
      t5 == construction_schedule_set(t4, p.construction_schedule)
      m  == startup_months_set(t5, p.startup_months)
      t6 == [m.t EXCEPT !.startup_FOCfrac = p.startup_FOCfrac,
                        !.startup_VOCfrac = p.startup_VOCfrac,
                        !.startup_salesfrac = p.startup_salesfrac,
                        !.WC_over_FCI = p.WC_over_FCI,
                        !.finance_interest = p.finance_interest,
                        !.finance_years = p.finance_years,
                        !.finance_fraction = p.finance_fraction,
                        !._IRR = p.IRR,
                        !._sales = 0,
                        !.system = system]
  IN IF d.out # NoExc THEN [out |-> d.out, t |-> Blank]
     ELSE IF m.out # NoExc THEN [out |-> m.out, t |-> Blank]
     ELSE [out |-> NoExc, t |-> t6]

\* --------------------------------------------------------------- arithmetic
\* a * num / den, exactly (a may be negative; num >= 0, den > 0)
MulFrac(a, num, den) == (a \div den) * num + ((a % den) * num) \div den

\* element-wise helpers on arrays (sequences)
Zeros(n) == [i \in 1..n |-> 0]

\* ------------------------------------------------------ aggregate properties
HasHook(t, h) == h \in t.cls.hooks

\* the cost-accounting hooks of the class of t (policy of ConcreteSub)
Hook_TDC(t, DPI) == DPI
Hook_FCI(t, TDC) == t.cls.FCIfactor * TDC
Hook_FOC(t, FCI) == MulFrac(FCI, t.cls.FOCfactor, HalfDen)

utility_cost(t) ==
  SumSeq([i \in 1..Len(t.system.units) |-> t.system.units[i].utility_cost])
    * t._annual_factor
purchase_cost(t) ==
  SumSeq([i \in 1..Len(t.system.units) |-> t.system.units[i].purchase_cost])
installation_cost(t) ==
  SumSeq([i \in 1..Len(t.system.units) |-> t.system.units[i].installation_cost])
DPI(t) ==
  IF t.lang_factor # 0 THEN purchase_cost(t) * t.lang_factor
  ELSE installation_cost(t)
TDC(t) == Hook_TDC(t, DPI(t))
FCI(t) == Hook_FCI(t, TDC(t))
material_cost(t) ==
  SumSeq([i \in 1..Len(t.system.feeds) |->
            IF t.system.feeds[i].price # 0 THEN t.system.feeds[i].cost ELSE 0])
    * t._annual_factor
VOC(t) == material_cost(t) + utility_cost(t)
sales(t) ==
  SumSeq([i \in 1..Len(t.system.products) |->
            IF t.system.products[i].price # 0 THEN t.system.products[i].cost ELSE 0])
    * t._annual_factor

\* a value returned to the caller, as the fraction num/den
Value(num, den) == [num |-> num, den |-> den]
NoValue == Value(0, 1)
FracAdd(a, b) == Value(a.num * b.den + b.num * a.den, a.den * b.den)
FracEq(a, b) == a.num * b.den = b.num * a.den

\* exact rationals in lowest terms with a positive denominator
RECURSIVE GCD(_, _)
GCD(a, b) == IF b = 0 THEN a ELSE GCD(b, a % b)
QNorm(n, d) ==
  IF d < 0 THEN Value((-n) \div GCD(Abs(n), Abs(d)), (-d) \div GCD(Abs(n), Abs(d)))
           ELSE Value(n \div GCD(Abs(n), Abs(d)), d \div GCD(Abs(n), Abs(d)))
QAdd(a, b) == QNorm(a.num * b.den + b.num * a.den, a.den * b.den)
QSub(a, b) == QNorm(a.num * b.den - b.num * a.den, a.den * b.den)
QMul(a, b) == QNorm(a.num * b.num, a.den * b.den)
QDiv(a, b) == QNorm(a.num * b.den, a.den * b.num)
QZero == Value(0, 1)
QOne == Value(1, 1)

\* the simple aggregates of TEA and CombinedTEA
AggregateNames ==
  {"utility_cost", "purchase_cost", "installation_cost", "DPI", "TDC", "FCI",
   "TCI", "FOC", "VOC", "AOC", "working_capital", "material_cost",
   "annual_depreciation", "sales", "net_earnings"}

\* the hooks a TEA property looks up, in the order it does
HooksUsed(name) ==
  CASE name = "TDC" -> <<"_TDC">>
    [] name = "working_capital" -> <<"_TDC">>
    [] name \in {"FCI", "TCI", "annual_depreciation"} -> <<"_FCI", "_TDC">>
    [] name \in {"FOC", "AOC", "net_earnings"} -> <<"_FOC", "_FCI", "_TDC">>
    [] OTHER -> <<>>

\* TEA.<name> for a simple aggregate: [out, value]
Aggregate(t, name) ==
  LET used == HooksUsed(name)
      missing == {i \in 1..Len(used) : ~HasHook(t, used[i])}
      first == CHOOSE i \in missing : \A j \in missing : i <= j
      FOCv == Hook_FOC(t, FCI(t))
      v == CASE name = "utility_cost" -> Value(utility_cost(t), 1)
             [] name = "purchase_cost" -> Value(purchase_cost(t), 1)
             [] name = "installation_cost" -> Value(installation_cost(t), 1)
             [] name = "DPI" -> Value(DPI(t), 1)
             [] name = "TDC" -> Value(TDC(t), 1)
             [] name = "FCI" -> Value(FCI(t), 1)
             [] name = "TCI" -> Value((HalfDen + t.WC_over_FCI) * FCI(t), HalfDen)
             [] name = "FOC" -> Value(FOCv, 1)
             [] name = "VOC" -> Value(VOC(t), 1)
             [] name = "AOC" -> Value(FOCv + VOC(t), 1)
             [] name = "working_capital" -> Value(t.WC_over_FCI * TDC(t), HalfDen)
             [] name = "material_cost" -> Value(material_cost(t), 1)
             [] name = "annual_depreciation" ->
                  Value(FCI(t), t._duration[2] - t._duration[1])
             [] name = "sales" -> Value(sales(t), 1)
             [] name = "net_earnings" ->
                  Value((HalfDen - t.income_tax) * (sales(t) - (FOCv + VOC(t))),
                        HalfDen)
  IN IF missing # {} THEN [out |-> Raised("AttributeError", used[first]),
                           value |-> NoValue]
     ELSE [out |-> NoExc, value |-> v]

\* TEA.ROI and TEA.PBP: [out, value].  Both compute FCI, then net earnings
\* as (1-income_tax)*(sales - _AOC(FCI)); ROI divides these by
\* FCI*(1+WC_over_FCI), PBP divides FCI by them.  The operands are floats.
RatioNames == {"ROI", "PBP"}
Ratio(t, name) ==
  LET used == <<"_FCI", "_TDC", "_FOC">>
      missing == {i \in 1..Len(used) : ~HasHook(t, used[i])}
      first == CHOOSE i \in missing : \A j \in missing : i <= j
      net_earnings == Value((HalfDen - t.income_tax)
                              * (sales(t) - (Hook_FOC(t, FCI(t)) + VOC(t))),
                            HalfDen)
      TCIv == Value((HalfDen + t.WC_over_FCI) * FCI(t), HalfDen)
  IN IF missing # {} THEN [out |-> Raised("AttributeError", used[first]),
                           value |-> NoValue]
     ELSE IF (IF name = "ROI" THEN TCIv.num ELSE net_earnings.num) = 0
       THEN [out |-> Raised("ZeroDivisionError", "float division by zero"),
             value |-> NoValue]
     ELSE [out |-> NoExc,
           value |-> IF name = "ROI" THEN QDiv(net_earnings, TCIv)
                     ELSE QDiv(Value(FCI(t), 1), net_earnings)]

\* what numpy gives for 0.0/0.0
NaN == Value(0, 0)

RECURSIVE FracSum(_)
FracSum(s) == IF s = <<>> THEN Value(0, 1) ELSE FracAdd(Head(s), FracSum(Tail(s)))

\* TEA.production_cost(*products), the market values being non-negative:
\* [out, value] with value the array returned, one fraction per product.
\* The weights are taken before self.AOC is read.
ProductionCostMutant(t, products) ==
  LET aoc == Aggregate(t, "AOC")
  IN IF aoc.out # NoExc THEN [out |-> aoc.out, value |-> <<>>]
     ELSE [out |-> NoExc,
           value |-> [i \in 1..Len(products) |->
                        Value(aoc.value.num, Len(products) * aoc.value.den)]]

production_cost(t, products) ==
  LET market_values == [i \in 1..Len(products) |-> products[i].cost]
      total == SumSeq(market_values)
      aoc == Aggregate(t, "AOC")
  IN IF aoc.out # NoExc THEN [out |-> aoc.out, value |-> <<>>]
     ELSE [out |-> NoExc,
           value |-> [i \in 1..Len(products) |->
                        IF total = 0 THEN NaN
                        ELSE Value(market_values[i] * aoc.value.num,
                                   total * aoc.value.den)]]

\* ------------------------------------------------------------ loan utilities
\* initial_loan_principal(loan, interest); interest in halves
RECURSIVE InitialPrincipalFrom(_, _, _)
InitialPrincipalFrom(principal, loan, interest) ==
  IF loan = <<>> THEN principal
  ELSE InitialPrincipalFrom(Head(loan) + MulFrac(principal, interest, HalfDen),
                            Tail(loan), interest)
initial_loan_principal(loan, interest) == InitialPrincipalFrom(0, loan, interest)

\* final_loan_principal(payment, principal, interest, years)
RECURSIVE final_loan_principal(_, _, _, _)
final_loan_principal(payment, principal, interest, years) ==
  IF years <= 0 THEN principal
  ELSE final_loan_principal(payment,
         principal + MulFrac(principal, interest, HalfDen) - payment,
         interest, years - 1)

\* One recorded call of a root finder: the solver, its two starting points
\* x0 and x0 + dx, the maxiter it was given and how it ended
CallWithArgs(solver, x0, dx, maxiter, r, args) ==
  [solver |-> solver, x0 |-> x0, dx |-> dx, maxiter |-> maxiter, out |-> r.out,
   args |-> args]
Call(solver, x0, dx, maxiter, r) == CallWithArgs(solver, x0, dx, maxiter, r, <<>>)

\* the maxiter keyword of the calls in solve_IRR and solve_price
MaxIter == 200
\* the maxiter of a call that passes none: the solver's own default applies
NoMaxIter == 0

\* One secant update from the points (x0, f0) and (x0 + 1, f1), rounded down
\* to the unit of x: the root of a linear objective, within one unit.
SecantStep(x0, f0, f1) ==
  IF f1 - f0 > 0 THEN x0 + ((-f0) \div (f1 - f0))
  ELSE x0 + (f0 \div (f0 - f1))

\* solve_payment(payment, loan, interest, years): [out, value].  The
\* objective final_loan_principal is linear in the payment, so the iteration
\* of wegstein_secant ends at its root; a flat objective divides by zero.
SolvePaymentMutant(payment, loan, interest, years) ==
  [out |-> NoExc, value |-> payment]

solve_payment(payment, loan, interest, years) ==
  LET principal == initial_loan_principal(loan, interest)
      f0 == final_loan_principal(payment, principal, interest, years)
      f1 == final_loan_principal(payment + 1, principal, interest, years)
  IN IF f1 = f0 THEN [out |-> Raised("ZeroDivisionError", "wegstein_secant"), value |-> 0]
     ELSE [out |-> NoExc, value |-> SecantStep(payment, f0, f1)]

\* ----------------------------------------------------------------- cash flow
EmptyTable ==
  [D |-> <<>>, C_FC |-> <<>>, C_WC |-> <<>>, Loan |-> <<>>, LIP |-> <<>>,
   C |-> <<>>, S |-> <<>>, NE |-> <<>>, CF |-> <<>>]

\* first-operating-year blend w0*frac*full + w1*full, w0 = _startup_time
BlendMutant(t, frac, full) == full

Blend(t, frac, full) ==
  MulFrac(full, t._startup_time * frac + (MonthsPerYear - t._startup_time) * HalfDen,
          MonthsPerYear * HalfDen)

\* the array D after D[start:start+len(depreciation)] = TDC*depreciation
DepreciationSeriesMutant(t, TDCv, n) ==
  [i \in 1..n |->
     IF i <= Len(t._depreciation_array)
       THEN MulFrac(TDCv, t._depreciation_array[i], FracDen)
       ELSE 0]

DepreciationSeries(t, TDCv, n) ==
  [i \in 1..n |->
     IF i > t._start /\ i <= t._start + Len(t._depreciation_array)
       THEN MulFrac(TDCv, t._depreciation_array[i - t._start], FracDen)
       ELSE 0]

\* the array C_WC after C_WC[start-1] = WC; C_WC[-1] = -WC
WorkingCapitalSeriesMutant(t, WC, n) ==
  [i \in 1..n |-> IF i = t._start THEN WC ELSE 0]

WorkingCapitalSeries(t, WC, n) ==
  LET first == IF t._start = 0 THEN n ELSE t._start
  IN [i \in 1..n |-> IF i = n THEN -WC ELSE IF i = first THEN WC ELSE 0]

\* one year of the returned series: NE + D + Loan - C_FC - C_WC - LIP, and
\* NE + D - C_FC - C_WC without financing
CashFlowFinanced(NE, D, Loan, C_FC, C_WC, LIP) ==
  NE + D + Loan - C_FC - C_WC - LIP

CashFlowUnfinancedMutant(NE, D, C_FC, C_WC) == NE - C_FC - C_WC

CashFlowUnfinanced(NE, D, C_FC, C_WC) == NE + D - C_FC - C_WC

\* the array LIP after LIP[start:end] = payment
LoanPaymentSeries(start, end, n, payment) ==
  [i \in 1..n |-> IF i > start /\ i <= end THEN payment ELSE 0]

\* TEA.cashflow: [out, t, table, calls], calls being the root-finder calls
\* made on the way.  Reading the property assigns _duration_array before
\* anything can raise after the hooks were called.
cashflow(t) ==
  IF ~HasHook(t, "_TDC") THEN
    [out |-> Raised("AttributeError", "_TDC"), t |-> t, table |-> EmptyTable,
     calls |-> <<>>]
  ELSE IF ~HasHook(t, "_FCI") THEN
    [out |-> Raised("AttributeError", "_FCI"), t |-> t, table |-> EmptyTable,
     calls |-> <<>>]
  ELSE
  LET TDCv == TDC(t)
      FCIv == Hook_FCI(t, TDCv)
      WC == MulFrac(FCIv, t.WC_over_FCI, HalfDen)
      start == t._start
      years == t._years
      n == start + years
      t1 == [t EXCEPT !._duration_array = <<-start, years>>]
      C_FC == [i \in 1..n |->
                 IF i <= start
                   THEN MulFrac(FCIv, t._construction_schedule[i], HalfDen)
                   ELSE 0]
      D == DepreciationSeries(t, TDCv, n)
      C_WC == WorkingCapitalSeries(t, WC, n)
      FOCv == Hook_FOC(t, FCIv)
      VOCv == VOC(t)
      salesv == sales(t)
      C == [i \in 1..n |->
              IF i <= start THEN 0
              ELSE IF i = start + 1
                THEN Blend(t, t.startup_VOCfrac, VOCv) + Blend(t, t.startup_FOCfrac, FOCv)
              ELSE VOCv + FOCv]
      S == [i \in 1..n |->
              IF i <= start THEN 0
              ELSE IF i = start + 1 THEN Blend(t, t.startup_salesfrac, salesv)
              ELSE salesv]
      NE == [i \in 1..n |->
               MulFrac(S[i] - C[i] - D[i], HalfDen - t.income_tax, HalfDen)]
      fyears == t.finance_years
      end == start + fyears
      loan == [i \in 1..start |->
                 MulFrac(C_FC[i] + C_WC[i], t.finance_fraction, HalfDen)]
      Loan == [i \in 1..n |-> IF i <= start THEN loan[i] ELSE 0]
      guess == MulFrac(SumSeq(loan) \div fyears, HalfDen + t.finance_interest, HalfDen)
      pay == solve_payment(guess, loan, t.finance_interest, fyears)
      paycall == <<CallWithArgs("wegstein_secant", guess, 1, NoMaxIter, pay,
                                <<initial_loan_principal(loan, t.finance_interest),
                                  t.finance_interest, fyears>>)>>
      LIP == LoanPaymentSeries(start, end, n, pay.value)
  IN IF years < Len(t._depreciation_array) /\ Len(t._depreciation_array) # 1 THEN
       [out |-> Raised("ValueError", "could not broadcast input array"),
        t |-> t1, table |-> EmptyTable, calls |-> <<>>]
     ELSE IF ~HasHook(t, "_FOC") THEN
       [out |-> Raised("AttributeError", "_FOC"), t |-> t1, table |-> EmptyTable,
        calls |-> <<>>]
     ELSE IF years < 1 THEN
       [out |-> Raised("IndexError", "index out of bounds"),
        t |-> t1, table |-> EmptyTable, calls |-> <<>>]
     ELSE IF t.finance_interest # 0 THEN
       IF pay.out # NoExc THEN [out |-> pay.out, t |-> t1, table |-> EmptyTable,
                                calls |-> paycall]
       ELSE [out |-> NoExc, t |-> t1,
             table |-> [D |-> D, C_FC |-> C_FC, C_WC |-> C_WC, Loan |-> Loan,
                        LIP |-> LIP, C |-> C, S |-> S, NE |-> NE,
                        CF |-> [i \in 1..n |->
                                  CashFlowFinanced(NE[i], D[i], Loan[i], C_FC[i],
                                                   C_WC[i], LIP[i])]],
             calls |-> paycall]
     ELSE
       [out |-> NoExc, t |-> t1,
        table |-> [D |-> D, C_FC |-> C_FC, C_WC |-> C_WC, Loan |-> Zeros(n),
                   LIP |-> Zeros(n), C |-> C, S |-> S, NE |-> NE,
                   CF |-> [i \in 1..n |->
                             CashFlowUnfinanced(NE[i], D[i], C_FC[i], C_WC[i])]],
        calls |-> <<>>]

\* ----------------------------------------------------------------------- NPV
\* rates at which the model evaluates NPV: 1 + IRR is a whole number
RateGrid == {0, Micro}
Growth(IRR) == (Micro + IRR) \div Micro

\* TEA._NPV_at_IRR(IRR, cashflow) with _duration_array = <<lo, hi>> standing
\* for arange(lo, hi): the value (cashflow/(1+IRR)**_duration_array).sum(),
\* times (1+IRR)**(MaxYears-1) to stay in the integers.
NPVOffsetMutant(IRR, cf, da) ==
  SumSeq([i \in 1..Len(cf) |->
            cf[i] * Pow(Growth(IRR), MaxYears - 1 - (da[1] + i - 2))])

NPV_at_IRR(IRR, cf, da) ==
  SumSeq([i \in 1..Len(cf) |->
            cf[i] * Pow(Growth(IRR), MaxYears - 1 - (da[1] + i - 1))])

\* TEA.NPV: [out, t, value]; the value over (1+IRR)**(MaxYears-1), with c
\* what self.cashflow gave
NPVOf(t, c) ==
  IF c.out # NoExc THEN [out |-> c.out, t |-> c.t, value |-> NoValue]
  ELSE [out |-> NoExc, t |-> c.t,
        value |-> Value(NPV_at_IRR(t.IRR, c.table.CF, c.t._duration_array),
                        Pow(Growth(t.IRR), MaxYears - 1))]

NPV(t) == NPVOf(t, cashflow(t))

\* The cash flow array after the two += of _NPV_with_sales
AddSales(t, s, cf) ==
  [i \in 1..Len(cf) |->
     IF i = t._start + 1 THEN cf[i] + Blend(t, t.startup_VOCfrac, s)
     ELSE IF i > t._start + 1 THEN cf[i] + s
     ELSE cf[i]]

\* TEA._NPV_with_sales(sales, cashflow)
NPV_with_sales(t, s, cf) ==
  NPV_at_IRR(t.IRR, AddSales(t, s, cf), t._duration_array)

\* ------------------------------------------------------------------- solvers
\* aitken_secant and secant (biosteam/_utils.py) by their contract.  A call
\* either returns a point at which the objective is zero within the
\* resolution of the model, or raises; secant alone may also run out of
\* iterations and return its last estimate without raising.
SolverRet(x) == [out |-> NoExc, value |-> x]
SolverRaise == [out |-> Raised("SolverError", "root finder"), value |-> 0]

\* roots: the points of convergence; x0: the first seed.  A seed that is
\* already a root is returned by the secant update.
aitken_secant(roots, x0) ==
  {SolverRet(x) : x \in (IF x0 \in roots THEN {x0} ELSE roots)} \cup {SolverRaise}

\* estimates: what a search that cannot converge may end at
secant(roots, estimates) ==
  {SolverRet(x) : x \in roots \cup estimates} \cup {SolverRaise}

\* a cash flow whose NPV has no zero at any rate above -100%
NoBreakEven(cf) ==
  /\ \E i \in 1..Len(cf) : cf[i] # 0
  /\ \/ \A i \in 1..Len(cf) : cf[i] <= 0
     \/ \A i \in 1..Len(cf) : cf[i] >= 0

\* The try/except chain shared by the four solve methods: the results of
\*   try:    guess' = aitken_secant(f, guess, guess + 1e-6, ...)
\*   except: guess' = secant(f, seed0, seed1, ...)
\* as records [out, value, calls]; dx in units of 1e-6.
SolveChainMutant(roots, estimates, guess, seed0, seed1dx) ==
  { [out |-> s.out, value |-> s.value,
     calls |-> <<Call("secant", seed0, seed1dx, MaxIter, s)>>] :
       s \in secant(roots, estimates) }

SolveChain(roots, estimates, guess, seed0, seed1dx) ==
  LET A == aitken_secant(roots, guess)
      first(a) == Call("aitken_secant", guess, 1, MaxIter, a)
  IN { [out |-> NoExc, value |-> a.value, calls |-> <<first(a)>>] :
         a \in {x \in A : x.out = NoExc} }
     \cup
     { [out |-> s.out, value |-> s.value,
        calls |-> <<first(SolverRaise), Call("secant", seed0, seed1dx, MaxIter, s)>>] :
         s \in secant(roots, estimates) }

\* ------------------------------------------------------------- single venture
\* the smallest change of the sales variable whose first-year blend is exact
SalesStep == MonthsPerYear * HalfDen

\* points at which a linear objective with values f0 at 0 and f1 at step
\* crosses zero, within one step
LinearRoots(f0, f1, step) ==
  IF f1 = f0 THEN {} ELSE {step * SecantStep(0, f0, f1)}

\* TEA.solve_IRR: the possible [out, t, value, calls], with c what
\* self.cashflow gave
SolveIRRStore(t, r) == [t EXCEPT !._IRR = r]

SolveIRRFrom(t, c) ==
  LET CF == c.table.CF
      roots == {r \in RateGrid : NPV_at_IRR(r, CF, c.t._duration_array) = 0}
      estimates == IF NoBreakEven(CF) THEN RateGrid \ roots ELSE {}
  IN IF c.out # NoExc
       THEN {[out |-> c.out, t |-> c.t, value |-> NoValue, calls |-> <<>>]}
       ELSE {[out |-> r.out,
              t |-> IF r.out = NoExc THEN SolveIRRStore(c.t, r.value) ELSE c.t,
              value |-> IF r.out = NoExc THEN Value(r.value, Micro) ELSE NoValue,
              calls |-> r.calls] :
               r \in SolveChain(roots, estimates, t._IRR, SecantRateSeed0,
                                SecantRateSeed1 - SecantRateSeed0)}

solve_IRR(t) == SolveIRRFrom(t, cashflow(t))

\* TEA._price2cost(stream), as a numerator over HalfDen
Price2CostMutant(t, stream) == stream.massnet * t._annual_factor * HalfDen
price2cost(t, stream) ==
  stream.massnet * t._annual_factor * (HalfDen - t.income_tax)

\* the tail of solve_price: the price returned for the stream, or the error
PriceOfMutant(stream, S, F2) ==
  IF stream.sink
    THEN [out |-> NoExc, value |-> Value(stream.price * F2 - S * HalfDen, F2)]
  ELSE [out |-> NoExc, value |-> Value(stream.price * F2 + S * HalfDen, F2)]

PriceOf(stream, S, F2) ==
  IF stream.sink
    THEN [out |-> NoExc, value |-> Value(stream.price * F2 - S * HalfDen, F2)]
  ELSE IF stream.source
    THEN [out |-> NoExc, value |-> Value(stream.price * F2 + S * HalfDen, F2)]
  ELSE [out |-> Raised("ValueError", "stream must be either a feed or a product"),
        value |-> NoValue]

\* the try/except of TEA.solve_price: the possible [out, t, sales, calls,
\* probe] with t the object after _sales was assigned and probe the array
\* _NPV_with_sales discounts when the solver evaluates it at one SalesStep
SolveSalesFrom(t, c) ==
  LET CF == c.table.CF
      roots == LinearRoots(NPV_with_sales(c.t, 0, CF),
                           NPV_with_sales(c.t, SalesStep, CF), SalesStep)
  IN IF c.out # NoExc
       THEN {[out |-> c.out, t |-> c.t, sales |-> 0, calls |-> <<>>,
              probe |-> <<>>]}
       ELSE {[out |-> r.out,
              t |-> IF r.out = NoExc THEN [c.t EXCEPT !._sales = r.value] ELSE c.t,
              sales |-> r.value, calls |-> r.calls,
              probe |-> AddSales(c.t, SalesStep, CF)] :
               r \in SolveChain(roots, {}, t._sales, 0, 1)}

solve_sales(t) == SolveSalesFrom(t, cashflow(t))

\* TEA.solve_price(stream) after the solve s: [out, t, value, calls]
solve_price(t, stream, s) ==
  LET p == PriceOf(stream, s.sales, price2cost(t, stream))
  IN IF s.out # NoExc
       THEN [out |-> s.out, t |-> s.t, value |-> NoValue, calls |-> s.calls]
       ELSE [out |-> p.out, t |-> s.t, value |-> p.value, calls |-> s.calls]

\* --------------------------------------------------------------- CombinedTEA
\* [(i, i.cashflow) for i in self.TEAs], members read in order:
\* [out, tea, cfs] with tea the members after the reads
RECURSIVE CashflowsFrom(_, _, _, _)
\* member k read with the result c
CashflowsNext(teas, TEAs, k, acc, c) ==
  IF c.out # NoExc
    THEN [out |-> c.out, tea |-> [teas EXCEPT ![TEAs[k]] = c.t], cfs |-> acc]
    ELSE CashflowsFrom([teas EXCEPT ![TEAs[k]] = c.t], TEAs, k + 1,
                       Append(acc, c.table.CF))

CashflowsFrom(teas, TEAs, k, acc) ==
  IF k > Len(TEAs) THEN [out |-> NoExc, tea |-> teas, cfs |-> acc]
  ELSE CashflowsNext(teas, TEAs, k, acc, cashflow(teas[TEAs[k]]))

TEA_cashflows(teas, TEAs) == CashflowsFrom(teas, TEAs, 1, <<>>)

\* sum([i.<name> for i in self.TEAs]): [out, value]
RECURSIVE SumMembers(_, _, _, _, _)
\* member k read with the result r
SumMembersNext(teas, TEAs, name, k, acc, r) ==
  IF r.out # NoExc THEN [out |-> r.out, value |-> NoValue]
  ELSE SumMembers(teas, TEAs, name, k + 1, FracAdd(acc, r.value))

SumMembers(teas, TEAs, name, k, acc) ==
  IF k > Len(TEAs) THEN [out |-> NoExc, value |-> acc]
  ELSE SumMembersNext(teas, TEAs, name, k, acc, Aggregate(teas[TEAs[k]], name))

MemberSumMutant(teas, TEAs, name) == Aggregate(teas[TEAs[1]], name)

MemberSum(teas, TEAs, name) == SumMembers(teas, TEAs, name, 1, Value(0, 1))

\* CombinedTEA.<name> for a simple aggregate: [out, value].  VOC and AOC are
\* built from the CombinedTEA's own properties, the others sum the members'.
AddResults(x, y) ==
  IF x.out # NoExc THEN x
  ELSE IF y.out # NoExc THEN y
  ELSE [out |-> NoExc, value |-> FracAdd(x.value, y.value)]

comb_aggregate(teas, TEAs, name) ==
  IF name = "VOC"
    THEN AddResults(MemberSum(teas, TEAs, "material_cost"),
                    MemberSum(teas, TEAs, "utility_cost"))
  ELSE IF name = "AOC"
    THEN AddResults(MemberSum(teas, TEAs, "FOC"),
                    AddResults(MemberSum(teas, TEAs, "material_cost"),
                               MemberSum(teas, TEAs, "utility_cost")))
  ELSE MemberSum(teas, TEAs, name)

\* CombinedTEA.ROI: sum([i.ROI for i in self.TEAs])
RECURSIVE SumROI(_, _, _, _)
SumROINext(teas, TEAs, k, acc, r) ==
  IF r.out # NoExc THEN [out |-> r.out, value |-> NoValue]
  ELSE SumROI(teas, TEAs, k + 1, QAdd(acc, r.value))
SumROI(teas, TEAs, k, acc) ==
  IF k > Len(TEAs) THEN [out |-> NoExc, value |-> acc]
  ELSE SumROINext(teas, TEAs, k, acc, Ratio(teas[TEAs[k]], "ROI"))

\* x / y of two results
DivResults(x, y) ==
  IF x.out # NoExc THEN x
  ELSE IF y.out # NoExc THEN y
  ELSE IF y.value.num = 0
    THEN [out |-> Raised("ZeroDivisionError", "float division by zero"),
          value |-> NoValue]
  ELSE [out |-> NoExc, value |-> QDiv(x.value, y.value)]

\* CombinedTEA.ROI and CombinedTEA.PBP (self.FCI/self.net_earnings)
comb_ratio(teas, TEAs, name) ==
  IF name = "ROI" THEN SumROI(teas, TEAs, 1, QZero)
  ELSE DivResults(comb_aggregate(teas, TEAs, "FCI"),
                  comb_aggregate(teas, TEAs, "net_earnings"))

\* element i of 0 + cfs[1] + ... + cfs[k]; an array of one element is
\* broadcast
RECURSIVE AddArrays(_, _, _)
AddArrays(cfs, k, i) ==
  IF k = 0 THEN 0
  ELSE AddArrays(cfs, k - 1, i) + cfs[k][IF Len(cfs[k]) = 1 THEN 1 ELSE i]

\* sum(cfs) for the members' arrays read as m = [out, tea, cfs]
SumArrays(m) ==
  LET lens == {Len(m.cfs[k]) : k \in 1..Len(m.cfs)}
      n == CHOOSE l \in lens : \A l2 \in lens : l2 <= l
  IN IF m.out # NoExc THEN [out |-> m.out, tea |-> m.tea, CF |-> <<>>]
     ELSE IF \E l \in lens : l # n /\ l # 1
       THEN [out |-> Raised("ValueError", "operands could not be broadcast together"),
             tea |-> m.tea, CF |-> <<>>]
     ELSE [out |-> NoExc, tea |-> m.tea,
           CF |-> [i \in 1..n |-> AddArrays(m.cfs, Len(m.cfs), i)]]

\* CombinedTEA.cashflow: sum([i.cashflow for i in self.TEAs]), [out, tea, CF]
comb_cashflow(teas, TEAs) == SumArrays(TEA_cashflows(teas, TEAs))

\* CombinedTEA.NPV, inherited from TEA: self._NPV_at_IRR(self.IRR,
\* self.cashflow) hands the summed array c to CombinedTEA._NPV_at_IRR, whose
\* "for i, j in TEA_cashflows" finds a number where it unpacks a pair:
\* [out, tea, value]
CombNPVOf(c) ==
  IF c.out # NoExc THEN [out |-> c.out, tea |-> c.tea, value |-> NoValue]
  ELSE [out |-> Raised("TypeError", "cannot unpack non-iterable numpy.float64 object"),
        tea |-> c.tea, value |-> NoValue]
comb_NPV(teas, TEAs) == CombNPVOf(comb_cashflow(teas, TEAs))

\* CombinedTEA._NPV_at_IRR(IRR, TEA_cashflows)
CombNPVMutant(IRR, teas, TEAs, cfs) ==
  NPV_at_IRR(IRR, cfs[Len(cfs)], teas[TEAs[Len(cfs)]]._duration_array)

Comb_NPV_at_IRR(IRR, teas, TEAs, cfs) ==
  SumSeq([k \in 1..Len(cfs) |->
            NPV_at_IRR(IRR, cfs[k], teas[TEAs[k]]._duration_array)])

\* cashflow[:] = CF, the last statement of CombinedTEA._NPV_with_sales
RestoreMutant(cfs, k, CF) == cfs

Restore(cfs, k, CF) == [cfs EXCEPT ![k] = CF]

\* CombinedTEA._NPV_with_sales(sales, TEA_cashflows, cashflow, TEA), with k
\* the position of TEA among the members and cashflow the array cfs[k], which
\* the call changes in place: [NPV, during, after], the members' arrays when
\* the NPV is taken and when the call returns
Comb_NPV_with_sales(cmb, s, teas, cfs, k) ==
  LET T == teas[cmb.TEAs[k]]
      CF == cfs[k]
      TEA_sales == MulFrac(s * T._annual_factor, HalfDen - T.income_tax, HalfDen)
      during == [cfs EXCEPT ![k] = AddSales(T, TEA_sales, cfs[k])]
  IN [NPV |-> Comb_NPV_at_IRR(cmb.IRR, teas, cmb.TEAs, during),
      during |-> during,
      after |-> Restore(during, k, CF)]

RECURSIVE Concat(_)
Concat(cfs) == IF cfs = <<>> THEN <<>> ELSE Head(cfs) \o Concat(Tail(cfs))

\* CombinedTEA.solve_IRR: the possible [out, cmb, tea, value, calls], with m
\* the members' cash flows as read
CombSolveIRRFrom(cmb, m) ==
  LET roots == {r \in RateGrid : Comb_NPV_at_IRR(r, m.tea, cmb.TEAs, m.cfs) = 0}
      estimates == IF NoBreakEven(Concat(m.cfs)) THEN RateGrid \ roots ELSE {}
  IN IF m.out # NoExc
       THEN {[out |-> m.out, cmb |-> cmb, tea |-> m.tea, value |-> NoValue,
              calls |-> <<>>]}
       ELSE {[out |-> r.out,
              cmb |-> IF r.out = NoExc THEN [cmb EXCEPT !._IRR = r.value] ELSE cmb,
              tea |-> m.tea,
              value |-> IF r.out = NoExc THEN Value(r.value, Micro) ELSE NoValue,
              calls |-> r.calls] :
               r \in SolveChain(roots, estimates, cmb._IRR, SecantRateSeed0,
                                SecantRateSeed1 - SecantRateSeed0)}

comb_solve_IRR(cmb, teas) == CombSolveIRRFrom(cmb, TEA_cashflows(teas, cmb.TEAs))

\* CombinedTEA._price2cost(stream), as a numerator over HalfDen
comb_price2cost(stream) == stream.massnet * HalfDen

\* position of member T in cmb.TEAs (self.TEAs.index(TEA))
IndexOf(TEAs, T) == CHOOSE k \in 1..Len(TEAs) : TEAs[k] = T

\* the try/except of CombinedTEA.solve_price(stream, TEA), after the members'
\* cash flows were read: the possible [out, cmb, tea, sales, calls]
CombSolveSalesFrom(cmb, m, T) ==
  LET k == IndexOf(cmb.TEAs, T)
      step == SalesStep * HalfDen
      e0 == Comb_NPV_with_sales(cmb, 0, m.tea, m.cfs, k)
      e1 == Comb_NPV_with_sales(cmb, step, m.tea, e0.after, k)
      roots == LinearRoots(e0.NPV, e1.NPV, step)
  IN IF m.out # NoExc
       THEN {[out |-> m.out, cmb |-> cmb, tea |-> m.tea, sales |-> 0,
              calls |-> <<>>]}
     ELSE IF \A j \in 1..Len(cmb.TEAs) : cmb.TEAs[j] # T
       THEN {[out |-> Raised("ValueError", "is not in list"), cmb |-> cmb,
              tea |-> m.tea, sales |-> 0, calls |-> <<>>]}
     ELSE {[out |-> r.out,
            cmb |-> IF r.out = NoExc THEN [cmb EXCEPT !._sales = r.value] ELSE cmb,
            tea |-> m.tea, sales |-> r.value, calls |-> r.calls] :
             r \in SolveChain(roots, {}, cmb._sales, 0, 1)}

comb_solve_sales(cmb, teas, T) ==
  CombSolveSalesFrom(cmb, TEA_cashflows(teas, cmb.TEAs), T)

\* CombinedTEA.solve_price(stream, TEA) after the solve s:
\* [out, cmb, tea, value, calls]
comb_solve_price(stream, s) ==
  LET p == PriceOf(stream, s.sales, comb_price2cost(stream))
  IN IF s.out # NoExc
       THEN [out |-> s.out, cmb |-> s.cmb, tea |-> s.tea, value |-> NoValue,
             calls |-> s.calls]
       ELSE [out |-> p.out, cmb |-> s.cmb, tea |-> s.tea, value |-> p.value,
             calls |-> s.calls]

\* -------------------------------------------------------------------- inputs
Dollar(n) == n * MoneyDen

\* shortest operating life drawn: one year less than the shortest schedule
MinYears == Len(MACRS.MACRS5) - 1

\* systems: one costed unit, one priced feed, one product (priced or not).
\* With the product priced, six years of operation under MACRS5 earn back the
\* fixed capital exactly, so that the venture breaks even at a rate of 0.
System(productPrice) ==
  [units |-> <<[purchase_cost |-> Dollar(1), installation_cost |-> Dollar(1),
                utility_cost |-> 0]>>,
   feeds |-> <<[cost |-> Dollar(1) \div HalfDen, price |-> Dollar(1)]>>,
   products |-> <<[cost |-> Dollar(5) \div 4, price |-> productPrice]>>]
Systems == {System(0), System(Dollar(1))}

Schedules == {<<2>>, <<1, 1>>}

Params(years, schedule, depreciation, months, interest) ==
  [IRR |-> Micro, duration |-> <<0, years>>, depreciation |-> depreciation,
   income_tax |-> 1, operating_days |-> 2, lang_factor |-> 0,
   construction_schedule |-> schedule, startup_months |-> months,
   startup_FOCfrac |-> 2, startup_VOCfrac |-> 1, startup_salesfrac |-> 0,
   WC_over_FCI |-> 1, finance_interest |-> interest, finance_years |-> 2,
   finance_fraction |-> 1]

\* streams handed to solve_price: a feed, a product, one that is neither
Feed == [price |-> Dollar(1), massnet |-> 1, sink |-> TRUE, source |-> FALSE]
Product == [price |-> Dollar(2), massnet |-> 2, sink |-> FALSE, source |-> TRUE]
Loose == [price |-> Dollar(1), massnet |-> 1, sink |-> FALSE, source |-> FALSE]
NoStream == [price |-> 0, massnet |-> 0, sink |-> FALSE, source |-> FALSE]
Streams == {Feed, Product, Loose}

\* loan interests handed to initial_loan_principal: 50% and 100%
InterestInputs == {HalfDen \div 2, HalfDen}

MonthsInputs == {0, 6, MonthsPerYear, MonthsPerYear + 1}

\* loan terms a caller assigns: one year, and one longer than the shortest
\* operating life that MACRS5 allows
FinanceYearsInputs == {1, MinYears + 2}

\* products handed to production_cost, by market value (cost rate): one
\* product, two of different value, one of no value alone and beside another
Valued(cost) == [cost |-> cost]
ProductLists ==
  <<<<Valued(1)>>, <<Valued(1), Valued(3)>>, <<Valued(0)>>,
    <<Valued(0), Valued(3)>>>>

\* the classes that exist: TEA itself and the subclasses whose definition
\* __init_subclass__ let through
IncompleteSub == [name |-> "IncompleteSub", hooks |-> {"_TDC"}, isabstract |-> FALSE,
                  FCIfactor |-> 0, FOCfactor |-> 0]
Subclasses == {AbstractSub, ConcreteSub, IncompleteSub}
Classes ==
  {BaseTEA} \cup {c \in Subclasses : init_subclass(c.isabstract, c.hooks) = NoExc}

\* arguments of a construction: every class with valid arguments, and the
\* complete class with an unregistered schedule or too many startup months
ConstructInputs ==
  {<<c, "MACRS5", 0>> : c \in Classes}
    \cup {<<ConcreteSub, "SL", 0>>, <<ConcreteSub, "MACRS5", MonthsPerYear + 1>>}

\* ------------------------------------------------------------ MassBalance

\* s.mol * factor, and the sum of an array's entries
Scaled(mol, factor) == [i \in DOMAIN mol |-> QMul(mol[i], factor)]
RECURSIVE Total(_)
Total(mol) == IF mol = <<>> THEN QZero ELSE QAdd(Head(mol), Total(Tail(mol)))

\* sum([s.mol for s in streams]) of at most one stream: the builtin sum of an
\* empty list is the int 0, which has neither an index nor a .sum()
NoArray == <<>>
SumMol(streams) == IF streams = <<>> THEN NoArray ELSE Head(streams)

\* the convergence tolerance 0.0001 of the composition loop is RelTol**-2
RelTol == 100
\* iterations of the composition loop that are followed
MaxLoops == 12

\* sum(((x_new - x_guess)/x_new)**2) > 0.0001 for the one factor: a zero
\* x_new gives inf (true) unless the difference is zero as well (nan: false)
not_converged(x_new, x_guess) ==
  IF x_new.num = 0 THEN x_guess.num # 0
  ELSE RelTol * Abs(QSub(x_new, x_guess).num) * x_new.den
         > Abs(x_new.num) * QSub(x_new, x_guess).den

\* the while loop of the composition branch, A being 1 by 1 and not singular:
\* b = (A_ * x_guess).sum()*f + O; x_new = solver(A, b)
RECURSIVE Iterate(_, _, _, _, _, _)
IterateNext(x_new, x_guess, k, A_sum, f, O, a) ==
  IF not_converged(x_new, x_guess)
    THEN Iterate(x_new, k - 1, A_sum, f, O, a)
    ELSE [converged |-> TRUE, x |-> x_new]
Iterate(x_guess, k, A_sum, f, O, a) ==
  IF k = 0 THEN [converged |-> FALSE, x |-> x_guess]
  ELSE IterateNext(QDiv(QAdd(QMul(QMul(A_sum, x_guess), f), O), a),
                   x_guess, k, A_sum, f, O, a)

\* the 'flow' branch: [out, unit, loops]
RunFlow(u) ==
  LET vary == u.variable_inlets[1]
      a == vary[u.index]
      mol_out == SumMol(u.constant_outlets)
  IN IF mol_out = NoArray
       THEN [out |-> Raised("TypeError", "'int' object is not subscriptable"),
             unit |-> u, loops |-> TRUE]
     ELSE IF a.num = 0
       THEN [out |-> Raised("LinAlgError", "Singular matrix"), unit |-> u,
             loops |-> TRUE]
     ELSE [out |-> NoExc,
           unit |-> [u EXCEPT !.variable_inlets =
                       <<Scaled(vary,
                                QDiv(QSub(mol_out[u.index],
                                          IF u.constant_inlets = <<>> THEN QZero
                                          ELSE u.constant_inlets[1][u.index]),
                                     a))>>],
           loops |-> TRUE]

\* the loop of the 'composition' branch and the assignment after it
CompositionFrom(u, r) ==
  IF r.converged
    THEN [out |-> NoExc,
          unit |-> [u EXCEPT !.variable_inlets =
                      <<Scaled(u.variable_inlets[1], r.x)>>],
          loops |-> TRUE]
    ELSE [out |-> NoExc, unit |-> u, loops |-> FALSE]

\* z_mol_out[index]: mol_out / F_mol_out if F_mol_out else mol_out
Composition(mol_out, index) ==
  IF Total(mol_out).num = 0 THEN mol_out[index]
  ELSE QDiv(mol_out[index], Total(mol_out))

\* the 'composition' branch: [out, unit, loops], loops being false when the
\* loop is still running after MaxLoops iterations
RunComposition(u) ==
  LET vary == u.variable_inlets[1]
      mol_out == SumMol(u.constant_outlets)
      g_ == SumMol(u.constant_inlets)
  IN IF mol_out = NoArray
       THEN [out |-> Raised("AttributeError", "'int' object has no attribute 'sum'"),
             unit |-> u, loops |-> TRUE]
     ELSE IF g_ = NoArray
       THEN [out |-> Raised("TypeError", "'int' object is not subscriptable"),
             unit |-> u, loops |-> TRUE]
     ELSE IF vary[u.index].num = 0
       THEN [out |-> Raised("LinAlgError", "Singular matrix"), unit |-> u,
             loops |-> TRUE]
     ELSE CompositionFrom(u,
            Iterate(QOne, MaxLoops, Total(vary), Composition(mol_out, u.index),
                    QSub(QMul(Total(g_), Composition(mol_out, u.index)),
                         g_[u.index]),
                    vary[u.index]))

\* MassBalance._run with is_exact = True, one chemical ID and one variable
\* inlet (the linear system is 1 by 1)
MassBalanceRunMutant(u) ==
  IF u.balance = "composition" THEN RunComposition(u) ELSE RunFlow(u)
MassBalance_run(u) ==
  IF u.balance = "flow" THEN RunFlow(u)
  ELSE IF u.balance = "composition" THEN RunComposition(u)
  ELSE [out |-> Raised("ValueError",
                       "balance type must be one of the following: 'flow', 'composition'"),
        unit |-> u, loops |-> TRUE]

\* MassBalance.__init__
MassBalance(index, variable_inlets, constant_outlets, constant_inlets, balance) ==
  [index |-> index, variable_inlets |-> variable_inlets,
   constant_outlets |-> constant_outlets, constant_inlets |-> constant_inlets,
   balance |-> balance]

\* molar flows of the two chemicals of a stream
Mol(a, b) == <<Value(a, 1), Value(b, 1)>>
VariableInputs == {Mol(2, 1), Mol(2, 0), Mol(0, 1)}
ConstantInletInputs == {<<>>, <<Mol(0, 1)>>, <<Mol(1, 0)>>}
ConstantOutletInputs == {<<>>, <<Mol(1, 2)>>, <<Mol(0, 0)>>, <<Mol(0, 3)>>}
BalanceInputs == {"flow", "composition", "mass"}
\* no MassBalance has been made
NoUnit == MassBalance(0, <<>>, <<>>, <<>>, "")

\* --------------------------------------------------------------------- state
VARIABLES
  tea,    \* the TEA objects, by instance
  comb,   \* the CombinedTEA of the two
  last,   \* the last operation: what was called and what came back
  ncalls, \* operations performed so far
  unit    \* the MassBalance unit with the flows of its streams

vars == <<tea, comb, last, ncalls, unit>>

\* every operation counts against the session's budget
Count == ncalls < MaxCalls /\ ncalls' = ncalls + 1

Inst == {1, 2}
\* the instance the caller operates on directly; 2 is reached through comb
Callee == CHOOSE i \in Inst : \A j \in Inst : i <= j
\* every object there can be: the two instances and the one TEA.like makes
Objs == Inst \cup {Cardinality(Inst) + 1}
\* the other end of TEA.like: the copy, or the original once the caller has
\* rebound its name to the copy
Twin == CHOOSE i \in Objs : i \notin Inst

\* TEA.like: a shallow copy of other, bound to system.  Every slot of the copy
\* holds the value other's slot held; _IRR and _sales are numbers, so the copy
\* has its own.
like(system, other) == [other EXCEPT !.system = system]

\* self._IRR = ..., self._sales = ...: the slots of object i take the values
\* of t; no other object has a slot written.
StoreSlotsMutant(teas, i, t) ==
  [j \in DOMAIN teas |->
     IF j = i THEN t ELSE [teas[j] EXCEPT !._IRR = t._IRR, !._sales = t._sales]]
StoreSlots(teas, i, t) == [teas EXCEPT ![i] = t]

Op(op, self, name, num, stream, out, value, calls, table) ==
  [op |-> op, self |-> self, name |-> name, num |-> num, stream |-> stream,
   out |-> out, value |-> value, calls |-> calls, table |-> table]

Init ==
  /\ \E y \in {MinYears + 1, MaxYears}, cs \in Schedules, sys \in Systems,
        fi \in {0, HalfDen} :
        tea = [i \in Objs |->
                 IF i = Callee
                   THEN TEAInit(ConcreteSub, sys, Params(y, cs, "MACRS5", 0, fi)).t
                   ELSE IF i \in Inst
                     THEN TEAInit(ConcreteSub, System(Dollar(1)),
                                  Params(MinYears + 1, <<1, 1>>, "MACRS5", 0, 0)).t
                     ELSE Blank]
  /\ comb = [TEAs |-> <<1, 2>>, IRR |-> 0, _IRR |-> 0, _sales |-> 0]
  /\ last = Op("", 0, "", 0, NoStream, NoExc, NoValue, <<>>, EmptyTable)
  /\ ncalls = 0
  /\ unit = NoUnit

\* class Sub(TEA, isabstract=...): with some of the hooks defined
DefineSubclass ==
  \E c \in Subclasses :
    /\ Count
    /\ last' = Op("class", 0, c.name, 0, NoStream,
                  init_subclass(c.isabstract, c.hooks), NoValue, <<>>, EmptyTable)
    /\ UNCHANGED <<tea, comb, unit>>

\* tea = cls(system, ...): a failed construction leaves the old object bound
Construct ==
  \E a \in ConstructInputs :
    \E r \in {TEAInit(a[1], tea[Callee].system,
                     Params(tea[Callee]._years, <<1, 1>>, a[2], a[3], 0))} :
       /\ Count
       /\ tea' = IF r.out = NoExc THEN [tea EXCEPT ![Callee] = r.t] ELSE tea
       /\ last' = Op("__init__", Callee, a[1].name, 0, NoStream, r.out, NoValue,
                     <<>>, EmptyTable)
       /\ UNCHANGED <<comb, unit>>

\* TEA.like(system, tea), the result either kept beside tea or bound to the
\* caller's name in its place (the original stays alive as the twin)
Like ==
  \E sys \in Systems, rebind \in BOOLEAN :
    \E c \in {like(sys, tea[Callee])} :
       /\ Count
       /\ tea' = IF rebind
                   THEN [tea EXCEPT ![Callee] = c, ![Twin] = tea[Callee]]
                   ELSE [tea EXCEPT ![Twin] = c]
       /\ last' = Op("like", IF rebind THEN Callee ELSE Twin, "", 0, NoStream,
                     NoExc, NoValue, <<>>, EmptyTable)
       /\ UNCHANGED <<comb, unit>>

\* tea.depreciation = name
SetDepreciation ==
  \E name \in DepreciationInputs :
    LET r == depreciation_set(tea[Callee], name)
    IN /\ Count
       /\ tea' = [tea EXCEPT ![Callee] = r.t]
       /\ last' = Op("depreciation", Callee, name, 0, NoStream, r.out, NoValue,
                     <<>>, EmptyTable)
       /\ UNCHANGED <<comb, unit>>

\* tea.startup_months = months
SetStartupMonths ==
  \E months \in MonthsInputs :
    LET r == startup_months_set(tea[Callee], months)
    IN /\ Count
       /\ tea' = [tea EXCEPT ![Callee] = r.t]
       /\ last' = Op("startup_months", Callee, "", months, NoStream, r.out,
                     NoValue, <<>>, EmptyTable)
       /\ UNCHANGED <<comb, unit>>

\* tea.finance_years = years (a plain attribute)
SetFinanceYears ==
  \E years \in FinanceYearsInputs :
    /\ Count
    /\ tea' = [tea EXCEPT ![Callee].finance_years = years]
    /\ last' = Op("finance_years", Callee, "", years, NoStream, NoExc, NoValue,
                  <<>>, EmptyTable)
    /\ UNCHANGED <<comb, unit>>

\* tea.cashflow
ReadCashflow ==
  /\ Count
  /\ \E r \in {cashflow(tea[Callee])} :
       /\ tea' = [tea EXCEPT ![Callee] = r.t]
       /\ last' = Op("cashflow", Callee, "", 0, NoStream, r.out, NoValue,
                     r.calls, r.table)
  /\ UNCHANGED <<comb, unit>>

\* tea.NPV
ReadNPV ==
  /\ Count
  /\ \E r \in {NPV(tea[Callee])} :
       /\ tea' = [tea EXCEPT ![Callee] = r.t]
       /\ last' = Op("NPV", Callee, "", 0, NoStream, r.out, r.value, <<>>,
                     EmptyTable)
  /\ UNCHANGED <<comb, unit>>

\* tea.production_cost(*products)
ProductionCost ==
  /\ Count
  /\ \E n \in 1..Len(ProductLists) :
       LET r == production_cost(tea[Callee], ProductLists[n])
       IN last' = Op("production_cost", Callee, "", n, NoStream, r.out,
                     r.value, <<>>, EmptyTable)
  /\ UNCHANGED <<tea, comb, unit>>

\* tea.ROI, tea.PBP
ReadRatio ==
  \E name \in RatioNames :
    \E r \in {Ratio(tea[Callee], name)} :
       /\ Count
       /\ last' = Op("ratio", Callee, name, 0, NoStream, r.out, r.value, <<>>,
                     EmptyTable)
       /\ UNCHANGED <<tea, comb, unit>>

\* tea.solve_IRR()
SolveIRR ==
  /\ Count
  /\ \E r \in solve_IRR(tea[Callee]) :
       /\ tea' = StoreSlots(tea, Callee, r.t)
       /\ last' = Op("solve_IRR", Callee, "", 0, NoStream, r.out, r.value,
                     r.calls, EmptyTable)
  /\ UNCHANGED <<comb, unit>>

\* tea.solve_price(stream)
SolvePrice ==
  /\ Count
  /\ \E s \in solve_sales(tea[Callee]) : \E stream \in Streams :
       LET r == solve_price(tea[Callee], stream, s)
       IN /\ tea' = StoreSlots(tea, Callee, r.t)
          /\ last' = Op("solve_price", Callee, "", 0, stream, r.out, r.value,
                        r.calls, [EmptyTable EXCEPT !.CF = s.probe])
  /\ UNCHANGED <<comb, unit>>

\* comb.<name> for a simple aggregate
CombReadAggregate ==
  \E name \in AggregateNames :
    \E r \in {comb_aggregate(tea, comb.TEAs, name)} :
       /\ Count
       /\ last' = Op("aggregate", 0, name, 0, NoStream, r.out, r.value, <<>>,
                     EmptyTable)
       /\ UNCHANGED <<tea, comb, unit>>

\* comb.cashflow
CombReadCashflow ==
  /\ Count
  /\ \E r \in {comb_cashflow(tea, comb.TEAs)} :
       /\ tea' = r.tea
       /\ last' = Op("aggregate", 0, "cashflow", 0, NoStream, r.out, NoValue,
                     <<>>, [EmptyTable EXCEPT !.CF = r.CF])
  /\ UNCHANGED <<comb, unit>>

\* comb.ROI, comb.PBP
CombReadRatio ==
  \E name \in RatioNames :
    \E r \in {comb_ratio(tea, comb.TEAs, name)} :
       /\ Count
       /\ last' = Op("ratio", 0, name, 0, NoStream, r.out, r.value, <<>>,
                     EmptyTable)
       /\ UNCHANGED <<tea, comb, unit>>

\* comb.NPV
CombReadNPV ==
  /\ Count
  /\ \E r \in {comb_NPV(tea, comb.TEAs)} :
       /\ tea' = r.tea
       /\ last' = Op("NPV", 0, "", 0, NoStream, r.out, r.value, <<>>,
                     EmptyTable)
  /\ UNCHANGED <<comb, unit>>

\* comb.solve_IRR()
CombSolveIRR ==
  /\ Count
  /\ \E r \in comb_solve_IRR(comb, tea) :
       /\ tea' = r.tea
       /\ comb' = r.cmb
       /\ last' = Op("solve_IRR", 0, "", 0, NoStream, r.out, r.value, r.calls,
                     EmptyTable)
  /\ UNCHANGED unit

\* comb.solve_price(stream, TEA)
CombSolvePrice ==
  /\ Count
  /\ \E T \in Inst : \E s \in comb_solve_sales(comb, tea, T) :
       \E stream \in Streams :
         LET r == comb_solve_price(stream, s)
         IN /\ tea' = r.tea
            /\ comb' = r.cmb
            /\ last' = Op("solve_price", 0, "", T, stream, r.out, r.value,
                          r.calls, EmptyTable)
  /\ UNCHANGED unit

Next ==
  \/ DefineSubclass
  \/ Construct
  \/ SetDepreciation
  \/ SetStartupMonths
  \/ SetFinanceYears
  \/ ReadCashflow
  \/ ReadNPV
  \/ ProductionCost
  \/ SolveIRR
  \/ SolvePrice
  \/ CombReadAggregate
  \/ CombReadCashflow
  \/ CombSolveIRR
  \/ CombSolvePrice

Spec == Init /\ [][Next]_vars

\* ------------------------------------------------ copies and their solvers
\* a session that copies the TEA with TEA.like and runs the solvers
LikeNext ==
  \/ Like
  \/ SolveIRR
  \/ SolvePrice
  \/ CombSolveIRR
  \/ CombSolvePrice

LikeSpec == Init /\ [][LikeNext]_vars

\* ---------------------------------------------------- the reported figures
\* a session that redefines the venture and reads ROI, PBP and the combined
\* NPV
ReportNext ==
  \/ Construct
  \/ SetDepreciation
  \/ SetFinanceYears
  \/ ReadRatio
  \/ CombReadRatio
  \/ CombReadNPV

ReportSpec == Init /\ [][ReportNext]_vars

\* ------------------------------------------------- the MassBalance on its own
\* a MassBalance over one variable inlet; no TEA is involved
BalanceInit ==
  /\ \E v \in VariableInputs, ci \in ConstantInletInputs,
        co \in ConstantOutletInputs, b \in BalanceInputs :
        unit = MassBalance(1, <<v>>, co, ci, b)
  /\ tea = [i \in Objs |-> Blank]
  /\ comb = [TEAs |-> <<>>, IRR |-> 0, _IRR |-> 0, _sales |-> 0]
  /\ last = Op("", 0, "", 0, NoStream, NoExc, NoValue, <<>>, EmptyTable)
  /\ ncalls = 0

\* unit._run(), when it returns or raises
RunBalance ==
  /\ Count
  /\ \E r \in {MassBalance_run(unit)} :
       /\ r.loops
       /\ unit' = r.unit
       /\ last' = Op("_run", 0, unit.balance, 0, NoStream, r.out, NoValue, <<>>,
                     EmptyTable)
  /\ UNCHANGED <<tea, comb>>

\* unit.balance = balance (a plain attribute)
SetBalance ==
  \E b \in BalanceInputs :
    /\ Count
    /\ unit' = [unit EXCEPT !.balance = b]
    /\ last' = Op("balance", 0, b, 0, NoStream, NoExc, NoValue, <<>>,
                  EmptyTable)
    /\ UNCHANGED <<tea, comb>>

BalanceNext ==
  \/ RunBalance
  \/ SetBalance

BalanceSpec == BalanceInit /\ [][BalanceNext]_vars

\* ---------------------------------------------------------------- properties
\* C1: for every schedule registered in the depreciation table the annual
\* fractions sum to 1 within 1e-6.
\* (The table is read as the objects read it, through the depreciation
\* setter.)
C1_SchedulesSumToOne ==
  \A i \in Inst : \A k \in DOMAIN MACRS :
    LET table == depreciation_set(tea[i], k).t._depreciation_array
    IN Abs(SumSeq(table) - FracDen) * (Micro \div FracDen) <= 1

\* venture parameters the setters accept, on a class with the three hooks
ValidVenture(t) ==
  /\ Hooks \subseteq t.cls.hooks
  /\ t._duration[2] > t._duration[1]
  /\ t._depreciation \in DOMAIN MACRS
  /\ Len(t._construction_schedule) > 0
  /\ t._startup_time <= MonthsPerYear

\* C2: for any valid venture parameters, reading cashflow succeeds and the
\* series has exactly (construction years) + (end year - start year) entries,
\* also when the operating life is shorter than the depreciation schedule.
C2_CashflowLength ==
  (last.op = "cashflow" /\ ValidVenture(tea[last.self])) =>
    /\ last.out = NoExc
    /\ Len(last.table.CF) =
         Len(tea[last.self]._construction_schedule)
           + (tea[last.self]._duration[2] - tea[last.self]._duration[1])

\* C3: in every cash flow table the working-capital series is WC in the last
\* construction year, -WC in the final operating year and zero elsewhere, and
\* sums to exactly 0.
C3_WorkingCapitalRecovered ==
  (last.op = "cashflow" /\ last.out = NoExc) =>
    LET t == tea[last.self]
        WC == MulFrac(Hook_FCI(t, Hook_TDC(t, DPI(t))), t.WC_over_FCI, HalfDen)
        C_WC == last.table.C_WC
        n == Len(C_WC)
    IN /\ n = Len(t._construction_schedule) + t._years
       /\ \A i \in 1..n :
            C_WC[i] = IF i = Len(t._construction_schedule) THEN WC
                      ELSE IF i = n THEN -WC ELSE 0
       /\ SumSeq(C_WC) = 0

C3_Witness ==
  /\ last.op = "cashflow"
  /\ last.out = NoExc
  /\ Len(tea[last.self]._construction_schedule) = 2
  /\ last.table.C_WC[2] > 0
  /\ last.table.C_WC[Len(last.table.C_WC)] < 0

\* the warm-start guess an operation reads: of the object self (0 is the
\* CombinedTEA) for the quantity op solves for
StoredGuess(teas, cmb, self, op) ==
  IF self = 0 THEN (IF op = "solve_IRR" THEN cmb._IRR ELSE cmb._sales)
  ELSE (IF op = "solve_IRR" THEN teas[self]._IRR ELSE teas[self]._sales)

Solves == {"solve_IRR", "solve_price"}

\* C4: in solve_IRR and solve_price of TEA and CombinedTEA the accelerated
\* secant solver is attempted first, seeded with the stored guess and the
\* guess + 1e-6; the plain secant solver is called only after the accelerated
\* one raised, with the seeds (0.15, 0.15001) for rates and (0, 1e-6) for
\* prices; when the fallback returns the caller sees no solver failure, and
\* when the fallback raises the caller sees that exception.
C4_FallbackChain ==
  [][ (last'.op \in Solves /\ last'.calls # <<>>) =>
        LET c == last'.calls
            rate == last'.op = "solve_IRR"
        IN /\ Len(c) \in {1, 2}
           /\ c[1].solver = "aitken_secant"
           /\ c[1].x0 = StoredGuess(tea, comb, last'.self, last'.op)
           /\ c[1].dx = 1
           /\ (Len(c) = 1) = (c[1].out = NoExc)
           /\ Len(c) = 2 =>
                /\ c[2].solver = "secant"
                /\ c[2].x0 = (IF rate THEN SecantRateSeed0 ELSE 0)
                /\ c[2].x0 + c[2].dx = (IF rate THEN SecantRateSeed1 ELSE 1)
                /\ c[2].out = NoExc => last'.out # SolverRaise.out
                /\ c[2].out # NoExc => last'.out = c[2].out
  ]_vars

C4_Witness ==
  /\ last.op = "solve_price"
  /\ last.self = 0
  /\ Len(last.calls) = 2
  /\ last.calls[1].out # NoExc
  /\ last.calls[2].out = NoExc
  /\ last.out = NoExc

\* C5: solve_IRR stores the value it returns as the warm-start guess _IRR,
\* and the NPV of the cash flow at the returned rate is 0 (here: within a
\* dollar at the end of the horizon).
C5_SolvedRateBreaksEven ==
  (last.op = "solve_IRR" /\ last.self = Callee /\ last.out = NoExc) =>
    LET t == tea[Callee]
    IN /\ last.value = Value(t._IRR, Micro)
       /\ Abs(NPV_at_IRR(t._IRR, cashflow(t).table.CF, t._duration_array))
            < MoneyDen

C7_PriceFromSales ==
  (last.op = "solve_price" /\ last.self = Callee /\ last.out = NoExc) =>
    LET t == tea[Callee]
        S == t._sales
        CF == cashflow(t).table.CF
        F2 == last.stream.massnet * ((t._operating_days * HoursPerDay) \div HoursPerDay)
                * (HalfDen - t.income_tax)
    IN /\ NPV_with_sales(t, S, CF) <= 0
       /\ NPV_with_sales(t, S + SalesStep, CF) > 0
       /\ last.stream.sink =>
            last.value = Value(last.stream.price * F2 - S * HalfDen, F2)
       /\ ~last.stream.sink =>
            /\ last.stream.source
            /\ last.value = Value(last.stream.price * F2 + S * HalfDen, F2)

C7_Witness ==
  /\ last.op = "solve_price"
  /\ last.self = Callee
  /\ last.out = NoExc
  /\ last.stream = Product
  /\ tea[Callee]._sales # 0
  /\ last.value.num * last.value.den > last.stream.price * last.value.den * last.value.den

\* the class object of a given name
ClassNamed(name) == CHOOSE c \in {BaseTEA} \cup Subclasses : c.name = name

\* C8: constructing a TEA of a class that does not supply all of _TDC, _FCI
\* and _FOC (the base class and abstract classes included) fails at
\* construction time.
C8_HooksRequiredAtConstruction ==
  (last.op = "__init__" /\ ~(Hooks \subseteq ClassNamed(last.name).hooks)) =>
    last.out # NoExc

\* C9: setting the depreciation to an unregistered name fails with an error
\* whose message names every registered schedule.
C9_UnknownDepreciationNamesAll ==
  (last.op = "depreciation" /\ last.name \notin DOMAIN MACRS) =>
    /\ last.out = Raised("ValueError", "depreciation must be either")
    /\ DepreciationMessageNames = DOMAIN MACRS

C11_StartupBlend ==
  (last.op = "cashflow" /\ last.out = NoExc) =>
    LET t == tea[last.self]
        start == Len(t._construction_schedule)
        w0 == t._startup_time
        w1 == MonthsPerYear - w0
        den == MonthsPerYear * HalfDen
        FOCv == Hook_FOC(t, FCI(t))
        C == last.table.C
        S == last.table.S
    IN /\ C[start + 1] * den =
            w0 * t.startup_VOCfrac * VOC(t) + w1 * HalfDen * VOC(t)
              + w0 * t.startup_FOCfrac * FOCv + w1 * HalfDen * FOCv
       /\ S[start + 1] * den =
            w0 * t.startup_salesfrac * sales(t) + w1 * HalfDen * sales(t)
       /\ \A i \in (start + 2)..Len(C) :
            C[i] = VOC(t) + FOCv /\ S[i] = sales(t)
       /\ w0 = 0 => C[start + 1] = VOC(t) + FOCv /\ S[start + 1] = sales(t)

C11_Witness ==
  /\ last.op = "cashflow"
  /\ last.out = NoExc
  /\ tea[last.self]._startup_time = 6
  /\ LET start == Len(tea[last.self]._construction_schedule)
     IN /\ last.table.C[start + 1] < last.table.C[start + 2]
        /\ last.table.S[start + 1] > 0
        /\ last.table.S[start + 1] < last.table.S[start + 2]

\* C12: without financing the cash flow of every year is
\* (sales - operating cost - depreciation)*(1 - income tax) + depreciation
\* - fixed-capital spend - working-capital spend; a construction year k has
\* -(FCI * fraction k), less WC in the last construction year, and the final
\* operating year includes the recovery +WC.
C12_CashFlowUnfinanced ==
  (last.op = "cashflow" /\ last.out = NoExc
     /\ tea[last.self].finance_interest = 0) =>
    LET t == tea[last.self]
        T == last.table
        start == Len(t._construction_schedule)
        n == Len(T.CF)
        WC == MulFrac(FCI(t), t.WC_over_FCI, HalfDen)
    IN /\ \A i \in 1..n :
            (T.CF[i] - T.D[i] + T.C_FC[i] + T.C_WC[i]) * HalfDen =
              (T.S[i] - T.C[i] - T.D[i]) * (HalfDen - t.income_tax)
       /\ \A k \in 1..start :
            T.CF[k] * HalfDen =
              -(FCI(t) * t._construction_schedule[k])
                - (IF k = start THEN WC * HalfDen ELSE 0)
       /\ (T.CF[n] - T.D[n] - WC) * HalfDen =
            (T.S[n] - T.C[n] - T.D[n]) * (HalfDen - t.income_tax)

C12_Witness ==
  /\ last.op = "cashflow"
  /\ last.out = NoExc
  /\ tea[last.self].finance_interest = 0
  /\ Len(tea[last.self]._construction_schedule) = 2
  /\ last.table.CF[1] < 0
  /\ last.table.CF[2] < last.table.CF[1]
  /\ last.table.D[3] > 0
  /\ last.table.C_WC[Len(last.table.CF)] < 0

\* C13: with financing, the solved payment is posted in exactly finance_years
\* consecutive years beginning with the first operating year, and in no
\* other year, whatever the loan term.
C13_PaymentEveryYearOfTerm ==
  (last.op = "cashflow" /\ last.out = NoExc
     /\ tea[last.self].finance_interest # 0) =>
    LET t == tea[last.self]
        start == Len(t._construction_schedule)
        LIP == last.table.LIP
        paid == {i \in 1..Len(LIP) : LIP[i] # 0}
    IN /\ paid = (start + 1)..(start + t.finance_years)
       /\ \A i \in paid : LIP[i] = LIP[start + 1]

\* C14: for a financed venture, applying principal + principal*interest -
\* payment exactly finance_years times to the initial principal, with the
\* payment solve_payment returned, leaves a principal within 1e-3 of zero.
C14_LoanCloses ==
  (last.op = "cashflow" /\ last.out = NoExc
     /\ tea[last.self].finance_interest # 0) =>
    LET t == tea[last.self]
        start == Len(t._construction_schedule)
        loan == [i \in 1..start |-> last.table.Loan[i]]
        payment == last.table.LIP[start + 1]
    IN Abs(final_loan_principal(payment,
                                initial_loan_principal(loan, t.finance_interest),
                                t.finance_interest, t.finance_years)) * 1000
         <= MoneyDen

C14_Witness ==
  /\ last.op = "cashflow"
  /\ last.out = NoExc
  /\ tea[last.self].finance_interest # 0
  /\ tea[last.self].finance_years = MinYears + 2
  /\ Len(tea[last.self]._construction_schedule) = 2
  /\ last.table.Loan[1] > 0
  /\ last.table.LIP[3] > 0

\* C15: every simple aggregate of a CombinedTEA equals the sum of that
\* property over its members, and its cashflow is the element-wise sum of the
\* members' series; two identical members give sales = 2 * TEA.sales.
C15_CombinedSums ==
  (last.op = "aggregate" /\ last.self = 0 /\ last.out = NoExc) =>
    LET a == comb.TEAs[1]
        b == comb.TEAs[2]
    IN IF last.name = "cashflow"
         THEN LET ca == cashflow(tea[a]).table.CF
                  cb == cashflow(tea[b]).table.CF
              IN /\ Len(last.table.CF) = Len(ca)
                 /\ Len(ca) = Len(cb)
                 /\ \A i \in 1..Len(ca) : last.table.CF[i] = ca[i] + cb[i]
         ELSE /\ FracEq(last.value,
                        FracAdd(Aggregate(tea[a], last.name).value,
                                Aggregate(tea[b], last.name).value))
              /\ (last.name = "sales" /\ tea[a] = tea[b]) =>
                   last.value.num = 2 * sales(tea[a]) * last.value.den

C15_Witness ==
  /\ last.op = "aggregate"
  /\ last.self = 0
  /\ last.out = NoExc
  /\ last.name = "sales"
  /\ tea[comb.TEAs[1]] = tea[comb.TEAs[2]]
  /\ last.value.num > 0

\* the members' own discounted cash flows at a rate, summed
MembersNPV(IRR) ==
  SumSeq([k \in 1..Len(comb.TEAs) |->
            LET t == tea[comb.TEAs[k]]
            IN NPV_at_IRR(IRR, cashflow(t).table.CF, t._duration_array)])

\* the members' cash flows, one after the other
MembersCF ==
  Concat([k \in 1..Len(comb.TEAs) |-> cashflow(tea[comb.TEAs[k]]).table.CF])

C17_SalesOnNamedMemberOnly ==
  (last.op = "solve_price" /\ last.self = 0 /\ last.calls # <<>>) =>
    LET cfs == TEA_cashflows(tea, comb.TEAs).cfs
        k == IndexOf(comb.TEAs, last.num)
        T == tea[last.num]
    IN \A s \in {0, SalesStep * HalfDen, comb._sales} :
         LET e == Comb_NPV_with_sales(comb, s, tea, cfs, k)
             TEA_sales == MulFrac(s * T._annual_factor, HalfDen - T.income_tax,
                                  HalfDen)
         IN /\ \A j \in 1..Len(cfs) :
                 j # k => e.during[j] = cfs[j] /\ e.after[j] = cfs[j]
            /\ Len(e.during[k]) = Len(cfs[k])
            /\ \A i \in 1..Len(cfs[k]) :
                 e.during[k][i] - cfs[k][i] =
                   IF i <= T._start THEN 0
                   ELSE IF i = T._start + 1
                     THEN Blend(T, T.startup_VOCfrac, TEA_sales)
                   ELSE TEA_sales
            /\ e.after[k] = cfs[k]

C17_Witness ==
  /\ last.op = "solve_price" /\ last.self = 0 /\ last.out = NoExc
  /\ comb._sales # 0
  /\ LET cfs == TEA_cashflows(tea, comb.TEAs).cfs
         k == IndexOf(comb.TEAs, last.num)
         e == Comb_NPV_with_sales(comb, comb._sales, tea, cfs, k)
     IN /\ e.during[k] # cfs[k]
        /\ e.after = cfs
        /\ e.NPV = 0

PayingVenture(CF, c) ==
  /\ \A i \in 1..Len(CF) : i <= c => CF[i] <= 0
  /\ \A i \in 1..Len(CF) : i > c + 1 => CF[i] > 0
  /\ Len(CF) > c + 1

\* C19: NPV at the venture's rate is the sum over the years of the cash flow
\* divided by (1+rate)^offset, the offsets running from -(construction years)
\* to (operating years - 1); and for a venture whose cash flow is non-positive
\* in construction and positive after year 0, NPV at a lower rate is strictly
\* greater than NPV at a higher rate.
C19_NPVDiscountedSum ==
  (last.op = "NPV" /\ last.out = NoExc) =>
    LET t == tea[last.self]
        CF == cashflow(t).table.CF
        c == Len(t._construction_schedule)
        y == t._duration[2] - t._duration[1]
        top == MaxYears - 1
        At(r) == SumSeq([i \in 1..Len(CF) |->
                           CF[i] * Pow(Growth(r), top - (i - 1 - c))])
    IN /\ Len(CF) = c + y
       /\ last.value = Value(At(t.IRR), Pow(Growth(t.IRR), top))
       /\ PayingVenture(CF, c) =>
            \A r1, r2 \in RateGrid :
              r1 < r2 =>
                NPV_at_IRR(r1, CF, t._duration_array) * Pow(Growth(r2), top)
                  > NPV_at_IRR(r2, CF, t._duration_array) * Pow(Growth(r1), top)

C19_Witness ==
  /\ last.op = "NPV" /\ last.out = NoExc
  /\ tea[last.self].IRR = Micro
  /\ last.value.num # 0
  /\ Len(tea[last.self]._construction_schedule) = 2
  /\ PayingVenture(cashflow(tea[last.self]).table.CF, 2)

\* C20: every root-finding call an operation makes (the primary and the
\* fallback call of solve_IRR and solve_price of TEA and CombinedTEA, and the
\* loan-payment solve inside cashflow) is given maxiter = 200.
C20_EveryCallBounded ==
  \A i \in 1..Len(last.calls) : last.calls[i].maxiter = MaxIter


\* the warm-start guesses an object stores
Guesses(o) == <<o._IRR, o._sales>>

\* C21: a solve_IRR or solve_price call changes the stored guesses (_IRR,
\* _sales) of the object it was called on and of no other: not of the twin
\* TEA.like made, not of the CombinedTEA when a member was called, not of a
\* member when the CombinedTEA was called.
C21_GuessesPerInstance ==
  [][last'.op \in {"solve_IRR", "solve_price"}
       => /\ \A i \in Objs :
               i # last'.self => Guesses(tea'[i]) = Guesses(tea[i])
          /\ last'.self \in Objs => Guesses(comb') = Guesses(comb)]_vars

\* a TEA.like pair whose guesses have parted after a solve_IRR on one of them
C21_Witness ==
  /\ last.op = "solve_IRR"
  /\ last.self = Callee
  /\ last.out = NoExc
  /\ tea[Twin] # Blank
  /\ tea[Twin]._IRR # tea[Callee]._IRR
  /\ tea[Callee]._IRR = last.value.num


\* C22: running a MassBalance whose balance is neither 'flow' nor
\* 'composition' raises ValueError and leaves the flows of every inlet (the
\* variable and the constant ones) as they were.
C22_UnknownBalanceRaises ==
  [][(last'.op = "_run" /\ unit.balance \notin {"flow", "composition"})
       => /\ last'.out.exc = "ValueError"
          /\ unit'.variable_inlets = unit.variable_inlets
          /\ unit'.constant_inlets = unit.constant_inlets]_vars

\* a MassBalance with a runnable 'flow' problem but balance = 'mass', run
C22_Witness ==
  /\ last.op = "_run"
  /\ last.name = "mass"
  /\ last.out.exc = "ValueError"
  /\ unit.constant_outlets # <<>>
  /\ unit.variable_inlets[1][unit.index].num # 0

\* C23: in every cash flow table the depreciation series is zero in each
\* construction year, TDC x fraction[k] in operating year k while k is within
\* the schedule, and zero in every operating year after the schedule's end.
C23_DepreciationSeries ==
  (last.op = "cashflow" /\ last.out = NoExc) =>
    \A i \in DOMAIN last.table.D :
      last.table.D[i] =
        IF i <= Len(tea[last.self]._construction_schedule) THEN 0
        ELSE IF i - Len(tea[last.self]._construction_schedule)
                  <= Len(tea[last.self]._depreciation_array)
          THEN MulFrac(TDC(tea[last.self]),
                       tea[last.self]._depreciation_array[
                         i - Len(tea[last.self]._construction_schedule)],
                       FracDen)
        ELSE 0

\* a table with construction years, a depreciated first operating year and an
\* operating year after the end of the schedule
C23_Witness ==
  /\ last.op = "cashflow"
  /\ last.out = NoExc
  /\ Len(tea[last.self]._construction_schedule) > 0
  /\ last.table.D[Len(tea[last.self]._construction_schedule) + 1] > 0
  /\ Len(last.table.D) > Len(tea[last.self]._construction_schedule)
                           + Len(tea[last.self]._depreciation_array)

\* C24: the extra sales s that the NPV-with-added-sales objective adds to the
\* cash flow is blended in the first operating year as the table blends
\* sales (w0 x startup_salesfrac x s + (1 - w0) x s), is added in full to
\* every later operating year and to no construction year.  Here s is one
\* SalesStep, as evaluated during TEA.solve_price.
C24_AddedSalesBlendedAsSales ==
  (last.op = "solve_price" /\ last.self = Callee /\ last.out = NoExc) =>
    \A i \in DOMAIN last.table.CF :
      last.table.CF[i] - cashflow(tea[Callee]).table.CF[i] =
        IF i <= tea[Callee]._start THEN 0
        ELSE IF i = tea[Callee]._start + 1
          THEN Blend(tea[Callee], tea[Callee].startup_salesfrac, SalesStep)
        ELSE SalesStep

\* the draws compounded at the loan interest: the principal grows by the
\* factor (1 + interest) before each draw is added
RECURSIVE Compounded(_, _, _)
Compounded(principal, loan, interest) ==
  IF loan = <<>> THEN principal
  ELSE Compounded(Head(loan) + MulFrac(principal, HalfDen + interest, HalfDen),
                  Tail(loan), interest)

\* C25: the initial loan principal handed to the payment solve is the
\* construction draws compounded at the loan interest, the principal growing
\* by (1 + interest) before each draw is added, and so is never less than
\* the total drawn.
C25_PrincipalCompounded ==
  (last.op = "cashflow" /\ last.calls # <<>>) =>
    /\ last.calls[1].args[1]
         = Compounded(0, SubSeq(last.table.Loan, 1, tea[last.self]._start),
                      tea[last.self].finance_interest)
    /\ last.calls[1].args[1] >= SumSeq(last.table.Loan)

\* C25, the bound alone: at a non-negative interest the initial principal of
\* the draws of a table is at least the total drawn
C25_PrincipalCoversDraws ==
  (last.op = "cashflow" /\ last.out = NoExc /\ last.calls # <<>>) =>
    \A interest \in InterestInputs :
      initial_loan_principal(SubSeq(last.table.Loan, 1, tea[last.self]._start),
                             interest)
        >= SumSeq(last.table.Loan)

\* C26: the working_capital aggregate of a TEA is the working-capital ratio
\* times FCI, the amount the cash flow table spends in the last construction
\* year, and TCI = FCI + working_capital, whatever the cost-accounting
\* policy (here FCI = FCIfactor x TDC).
C26_WorkingCapitalOfFCI ==
  (last.op = "cashflow" /\ last.out = NoExc) =>
    /\ FracEq(Aggregate(tea[last.self], "working_capital").value,
              Value(tea[last.self].WC_over_FCI * FCI(tea[last.self]), HalfDen))
    /\ FracEq(Aggregate(tea[last.self], "working_capital").value,
              Value(last.table.C_WC[tea[last.self]._start], 1))
    /\ FracEq(Aggregate(tea[last.self], "TCI").value,
              FracAdd(Value(FCI(tea[last.self]), 1),
                      Aggregate(tea[last.self], "working_capital").value))

\* C27: reading NPV on a CombinedTEA whose members all have a cash flow
\* returns the sum over the members of each member's cash flow discounted at
\* the CombinedTEA's IRR (never a member's own).
C27_CombinedNPV ==
  (/\ last.op = "NPV"
   /\ last.self = 0
   /\ \A k \in 1..Len(comb.TEAs) : cashflow(tea[comb.TEAs[k]]).out = NoExc) =>
    /\ last.out = NoExc
    /\ last.value = Value(MembersNPV(comb.IRR),
                          Pow(Growth(comb.IRR), MaxYears - 1))

\* the aggregate an object reports: a TEA, or the CombinedTEA (self = 0)
OwnAggregate(self, name) ==
  IF self = 0 THEN comb_aggregate(tea, comb.TEAs, name).value
  ELSE Aggregate(tea[self], name).value

\* C28: the ROI and the PBP that a TEA or a CombinedTEA reports agree with
\* its own aggregates: ROI = net_earnings / TCI and PBP = FCI / net_earnings.
C28_RatiosOfOwnAggregates ==
  (last.op = "ratio" /\ last.out = NoExc) =>
    IF last.name = "ROI"
      THEN last.value = QDiv(OwnAggregate(last.self, "net_earnings"),
                             OwnAggregate(last.self, "TCI"))
      ELSE last.value = QDiv(OwnAggregate(last.self, "FCI"),
                             OwnAggregate(last.self, "net_earnings"))

\* C28 for the single TEA alone
C28_RatiosOfTEA ==
  (last.op = "ratio" /\ last.out = NoExc /\ last.self # 0) =>
    C28_RatiosOfOwnAggregates

\* C28 for the pay back period of the CombinedTEA alone
C28_CombinedPBP ==
  (last.op = "ratio" /\ last.out = NoExc /\ last.name = "PBP") =>
    C28_RatiosOfOwnAggregates

\* C29: when solve_price of a TEA or of the CombinedTEA fails because the
\* stream is neither a feed nor a product, the object's _sales is the value
\* it had before the call.
C29_SalesKeptOnRejectedStream ==
  [][(/\ last'.op = "solve_price"
      /\ last'.out.exc = "ValueError"
      /\ ~last'.stream.sink
      /\ ~last'.stream.source)
       => IF last'.self = 0 THEN comb'._sales = comb._sales
          ELSE tea'[last'.self]._sales = tea[last'.self]._sales]_vars
====
